---- MODULE Spec2Model ----
(***************************************************************************)
(* Model of the text-diff engine of backend/app/services/diff_service.py   *)
(* (DiffService.generate_diff, apply_diff, parse_diff_from_text) and of    *)
(* the /api/diff endpoints that call it (backend/app/api/diff.py).         *)
(*                                                                         *)
(* A Python str is a sequence of one-character strings; a list of lines is *)
(* a sequence of such sequences.  Python indices are 0-based and ranges    *)
(* half-open; the operators below keep the Python indices and read the     *)
(* element i of a list s as s[i + 1].                                      *)
(***************************************************************************)
EXTENDS Integers, Sequences, FiniteSets, TLC

\* ------------------------------------------------------------------------
\* Bounds of the model
\* ------------------------------------------------------------------------
\* longest line sequence of an input, but for the originals over two contents
MaxLen == 3
\* longest original line sequence of the inputs over two contents
MaxLenLong == 5
\* longest line sequence of the inputs with contents that begin with -- or ++
MaxLenMarks == 2
\* largest context_lines value below the default
MaxContext == 1
\* longest input of the parser, in lines
MaxParseLines == 3
\* most operations of an /apply request
MaxOps == 2
\* largest orig_start of a hunk of an /apply request
MaxStart == 4

\* the default of the context_lines parameter of generate_diff
\* the longest list (of lines, of hunks) given to a call that runs beside
\* another call
MaxConcLen == 2
\* the longest list of messages of a chat request
MaxMessages == 2

DefaultContext == 3
\* sys.int_max_str_digits of CPython: int() of a longer run of digits raises
\* ValueError
IntMaxStrDigits == 4300

\* ------------------------------------------------------------------------
\* Python str and list helpers
\* ------------------------------------------------------------------------
NL == "\n"

\* the empty str / the empty list
Empty == << >>

Max(x, y) == IF x >= y THEN x ELSE y
Min(x, y) == IF x <= y THEN x ELSE y

\* s[lo:hi] for 0 <= lo, hi (Python clamps hi to len(s))
Slice(s, lo, hi) == SubSeq(s, lo + 1, Min(hi, Len(s)))

\* s.startswith(p)
StartsWith(s, p) == Len(s) >= Len(p) /\ SubSeq(s, 1, Len(p)) = p

\* the pieces of two adjacent parts of a text: the last piece of the left
\* part and the first piece of the right part are one piece
JoinPieces(left, right) ==
    SubSeq(left, 1, Len(left) - 1)
        \o << left[Len(left)] \o right[1] >>
        \o Tail(right)

\* no line follows the last line break of a text
DropLastEmpty(pieces) ==
    IF pieces[Len(pieces)] = Empty
    THEN SubSeq(pieces, 1, Len(pieces) - 1) ELSE pieces

\* str.splitlines(): a line ends at a line break, the break is not kept, and
\* a text that ends with a line break has no empty last line.  The pieces of
\* text[lo..hi] between line breaks are computed by halving, so that a very
\* long line costs a shallow recursion.
RECURSIVE SplitFrom(_, _, _)
SplitFrom(text, lo, hi) ==
    IF lo > hi THEN << Empty >>
    ELSE IF lo = hi
         THEN IF text[lo] = NL THEN << Empty, Empty >> ELSE << << text[lo] >> >>
         ELSE JoinPieces(SplitFrom(text, lo, (lo + hi) \div 2),
                         SplitFrom(text, (lo + hi) \div 2 + 1, hi))

SplitLines(text) == DropLastEmpty(SplitFrom(text, 1, Len(text)))

\* '\n'.join(lines)
RECURSIVE JoinLines(_)
JoinLines(lines) ==
    IF lines = Empty THEN Empty
    ELSE IF Len(lines) = 1 THEN lines[1]
         ELSE lines[1] \o << NL >> \o JoinLines(Tail(lines))

\* str(n) for an int
DigitChars == << "0", "1", "2", "3", "4", "5", "6", "7", "8", "9" >>

RECURSIVE FormatNat(_)
FormatNat(n) ==
    IF n < 10 THEN << DigitChars[n + 1] >>
    ELSE FormatNat(n \div 10) \o << DigitChars[(n % 10) + 1] >>

FormatInt(n) == IF n < 0 THEN << "-" >> \o FormatNat(0 - n) ELSE FormatNat(n)

\* \d of the regular expressions, and int() of a run of digits
IsDigit(c) == \E d \in 1..10 : DigitChars[d] = c

DigitValue(c) == (CHOOSE d \in 1..10 : DigitChars[d] = c) - 1

RECURSIVE ParseNat(_)
ParseNat(s) ==
    IF Len(s) = 1 THEN DigitValue(s[1])
    ELSE 10 * ParseNat(SubSeq(s, 1, Len(s) - 1)) + DigitValue(s[Len(s)])

\* the first of two adjacent ranges that has a non-digit decides
FirstOf(left, mid, right) == IF left <= mid THEN left ELSE right

RECURSIVE FirstNonDigit(_, _, _)
FirstNonDigit(s, lo, hi) ==
    IF lo > hi THEN hi + 1
    ELSE IF lo = hi
         THEN IF IsDigit(s[lo]) THEN hi + 1 ELSE lo
         ELSE FirstOf(FirstNonDigit(s, lo, (lo + hi) \div 2),
                      (lo + hi) \div 2,
                      FirstNonDigit(s, (lo + hi) \div 2 + 1, hi))

\* the index after the longest run of digits of s that starts at index i
DigitsEnd(s, i) == FirstNonDigit(s, i, Len(s))

\* s has the literal p at index i
LitAt(s, i, p) == i + Len(p) - 1 <= Len(s) /\ SubSeq(s, i, i + Len(p) - 1) = p

\* re.match(r'^@@ -(\d+),(\d+) \+(\d+),(\d+) @@', line): every \d+ is followed
\* by a literal that is no digit, so the only possible match takes each
\* longest run of digits.  groups: map(int, match.groups()); overlong: int()
\* raises ValueError, a group has more than IntMaxStrDigits digits
HeaderMatch(line) ==
    LET b1 == 5
        e1 == DigitsEnd(line, b1)
        b2 == e1 + 1
        e2 == DigitsEnd(line, b2)
        b3 == e2 + 2
        e3 == DigitsEnd(line, b3)
        b4 == e3 + 1
        e4 == DigitsEnd(line, b4)
    IN  IF /\ LitAt(line, 1, << "@", "@", " ", "-" >>)
           /\ e1 > b1
           /\ LitAt(line, e1, << "," >>)
           /\ e2 > b2
           /\ LitAt(line, e2, << " ", "+" >>)
           /\ e3 > b3
           /\ LitAt(line, e3, << "," >>)
           /\ e4 > b4
           /\ LitAt(line, e4, << " ", "@", "@" >>)
        THEN IF Max(Max(e1 - b1, e2 - b2), Max(e3 - b3, e4 - b4))
                    > IntMaxStrDigits
             THEN [matched |-> TRUE, overlong |-> TRUE, groups |-> << >>]
             ELSE [matched |-> TRUE, overlong |-> FALSE,
                   groups |-> << ParseNat(SubSeq(line, b1, e1 - 1)),
                                 ParseNat(SubSeq(line, b2, e2 - 1)),
                                 ParseNat(SubSeq(line, b3, e3 - 1)),
                                 ParseNat(SubSeq(line, b4, e4 - 1)) >>]
        ELSE [matched |-> FALSE, overlong |-> FALSE, groups |-> << >>]

\* ------------------------------------------------------------------------
\* difflib (the standard library, called at diff_service.py:23):
\* SequenceMatcher(None, a, b) on two lists of lines, without junk
\* ------------------------------------------------------------------------
\* the number of equal elements of a[i:ahi] and b[j:bhi] from their starts
RECURSIVE CommonLen(_, _, _, _, _, _)
CommonLen(a, b, i, j, ahi, bhi) ==
    IF i < ahi /\ j < bhi /\ a[i + 1] = b[j + 1]
    THEN 1 + CommonLen(a, b, i + 1, j + 1, ahi, bhi)
    ELSE 0

SetMax(S) == CHOOSE x \in S : \A y \in S : y <= x
SetMin(S) == CHOOSE x \in S : \A y \in S : x <= y

\* find_longest_match: the longest block a[i:i+k] = b[j:j+k] inside
\* a[alo:ahi], b[blo:bhi]; of the longest blocks the one that starts earliest
\* in a, and of those the one that starts earliest in b; (alo, blo, 0) when
\* no element matches
FindLongestMatch(a, b, alo, ahi, blo, bhi) ==
    LET sizes == { CommonLen(a, b, i, j, ahi, bhi) :
                       i \in alo..(ahi - 1), j \in blo..(bhi - 1) }
        k == SetMax(sizes \cup {0})
    IN  IF k = 0 THEN << alo, blo, 0 >>
        ELSE LET besti == SetMin({ i \in alo..(ahi - 1) :
                              \E j \in blo..(bhi - 1) :
                                  CommonLen(a, b, i, j, ahi, bhi) = k })
                 bestj == SetMin({ j \in blo..(bhi - 1) :
                              CommonLen(a, b, besti, j, ahi, bhi) = k })
             IN  << besti, bestj, k >>

\* get_matching_blocks, before the closing dummy block: the longest match m
\* of the range, then the matching blocks to its left and to its right, sorted
RECURSIVE MatchingBlocks(_, _, _, _, _, _)
RECURSIVE BlocksAround(_, _, _, _, _, _, _)
BlocksAround(a, b, alo, ahi, blo, bhi, m) ==
    IF m[3] = 0 THEN Empty
    ELSE (IF alo < m[1] /\ blo < m[2]
          THEN MatchingBlocks(a, b, alo, m[1], blo, m[2]) ELSE Empty)
         \o << m >> \o
         (IF m[1] + m[3] < ahi /\ m[2] + m[3] < bhi
          THEN MatchingBlocks(a, b, m[1] + m[3], ahi, m[2] + m[3], bhi)
          ELSE Empty)

MatchingBlocks(a, b, alo, ahi, blo, bhi) ==
    BlocksAround(a, b, alo, ahi, blo, bhi,
                 FindLongestMatch(a, b, alo, ahi, blo, bhi))

\* get_matching_blocks collapses adjacent blocks into one
RECURSIVE CollapseBlocks(_, _)
CollapseBlocks(blocks, cur) ==
    IF blocks = Empty THEN (IF cur[3] > 0 THEN << cur >> ELSE Empty)
    ELSE LET nxt == Head(blocks) IN
         IF cur[1] + cur[3] = nxt[1] /\ cur[2] + cur[3] = nxt[2]
         THEN CollapseBlocks(Tail(blocks), << cur[1], cur[2], cur[3] + nxt[3] >>)
         ELSE (IF cur[3] > 0 THEN << cur >> ELSE Empty)
              \o CollapseBlocks(Tail(blocks), nxt)

GetMatchingBlocks(a, b) ==
    CollapseBlocks(MatchingBlocks(a, b, 0, Len(a), 0, Len(b)), << 0, 0, 0 >>)
        \o << << Len(a), Len(b), 0 >> >>

Opcode(tag, i1, i2, j1, j2) ==
    [tag |-> tag, i1 |-> i1, i2 |-> i2, j1 |-> j1, j2 |-> j2]

\* get_opcodes: between two matching blocks a replace, delete or insert, and
\* for every block of positive size an equal
RECURSIVE OpcodesFrom(_, _, _)
OpcodesFrom(blocks, i, j) ==
    IF blocks = Empty THEN Empty
    ELSE LET ai == Head(blocks)[1]
             bj == Head(blocks)[2]
             size == Head(blocks)[3]
             tag == IF i < ai /\ j < bj THEN "replace"
                    ELSE IF i < ai THEN "delete"
                    ELSE IF j < bj THEN "insert"
                    ELSE ""
         IN  (IF tag # "" THEN << Opcode(tag, i, ai, j, bj) >> ELSE Empty)
             \o (IF size > 0
                 THEN << Opcode("equal", ai, ai + size, bj, bj + size) >>
                 ELSE Empty)
             \o OpcodesFrom(Tail(blocks), ai + size, bj + size)

GetOpcodes(a, b) == OpcodesFrom(GetMatchingBlocks(a, b), 0, 0)

\* the loop of get_grouped_opcodes: an equal range of more than 2n lines ends
\* the group after n of its lines and starts the next one n lines before its
\* end; a last group that is one equal opcode is not yielded
RECURSIVE GroupLoop(_, _, _, _)
GroupLoop(codes, k, n, group) ==
    IF k > Len(codes)
    THEN IF group # Empty /\ ~(Len(group) = 1 /\ group[1].tag = "equal")
         THEN << group >> ELSE Empty
    ELSE LET c == codes[k] IN
         IF c.tag = "equal" /\ c.i2 - c.i1 > n + n
         THEN << Append(group, Opcode(c.tag, c.i1, Min(c.i2, c.i1 + n),
                                      c.j1, Min(c.j2, c.j1 + n))) >>
              \o GroupLoop(codes, k + 1, n,
                           << Opcode(c.tag, Max(c.i1, c.i2 - n), c.i2,
                                     Max(c.j1, c.j2 - n), c.j2) >>)
         ELSE GroupLoop(codes, k + 1, n, Append(group, c))

\* get_grouped_opcodes: without opcodes, one dummy equal opcode
CodesOrDummy(codes) ==
    IF codes = Empty THEN << Opcode("equal", 0, 1, 0, 1) >> ELSE codes

\* get_grouped_opcodes: a leading equal opcode keeps its last n lines
TrimLeading(codes, n) ==
    IF codes[1].tag = "equal"
    THEN [codes EXCEPT ![1] =
             Opcode(@.tag, Max(@.i1, @.i2 - n), @.i2, Max(@.j1, @.j2 - n), @.j2)]
    ELSE codes

\* get_grouped_opcodes: a trailing equal opcode keeps its first n lines
TrimTrailing(codes, n) ==
    IF codes[Len(codes)].tag = "equal"
    THEN [codes EXCEPT ![Len(codes)] =
             Opcode(@.tag, @.i1, Min(@.i2, @.i1 + n), @.j1, Min(@.j2, @.j1 + n))]
    ELSE codes

\* get_grouped_opcodes(n)
GetGroupedOpcodes(a, b, n) ==
    GroupLoop(TrimTrailing(TrimLeading(CodesOrDummy(GetOpcodes(a, b)), n), n),
              1, n, Empty)

\* _format_range_unified(start, stop): a range of one line is written
\* without its length, an empty range names the line before it
FormatRangeUnified(start, stop) ==
    LET beginning == start + 1
        length == stop - start
    IN  IF length = 1 THEN FormatInt(beginning)
        ELSE FormatInt(IF length = 0 THEN beginning - 1 ELSE beginning)
             \o << "," >> \o FormatInt(length)

\* prefix + line for every line of lines
Prefixed(prefix, lines) == [k \in 1..Len(lines) |-> << prefix >> \o lines[k]]

\* the body lines unified_diff yields for the opcodes of one group
RECURSIVE GroupBody(_, _, _)
GroupBody(a, b, group) ==
    IF group = Empty THEN Empty
    ELSE LET c == Head(group) IN
         (IF c.tag = "equal" THEN Prefixed(" ", Slice(a, c.i1, c.i2))
          ELSE (IF c.tag \in {"replace", "delete"}
                THEN Prefixed("-", Slice(a, c.i1, c.i2)) ELSE Empty)
               \o (IF c.tag \in {"replace", "insert"}
                   THEN Prefixed("+", Slice(b, c.j1, c.j2)) ELSE Empty))
         \o GroupBody(a, b, Tail(group))

\* the '@@ -range +range @@' line of one group
GroupHeader(group) ==
    << "@", "@", " ", "-" >>
        \o FormatRangeUnified(group[1].i1, group[Len(group)].i2)
        \o << " ", "+" >>
        \o FormatRangeUnified(group[1].j1, group[Len(group)].j2)
        \o << " ", "@", "@" >>

RECURSIVE GroupsText(_, _, _)
GroupsText(a, b, groups) ==
    IF groups = Empty THEN Empty
    ELSE << GroupHeader(Head(groups)) >> \o GroupBody(a, b, Head(groups))
         \o GroupsText(a, b, Tail(groups))

\* the two file header lines (empty file names and dates) that unified_diff
\* yields before the first group
WithFileHeaders(lines) ==
    IF lines = Empty THEN Empty
    ELSE << << "-", "-", "-", " " >>, << "+", "+", "+", " " >> >> \o lines

\* difflib.unified_diff(a, b, n=n, lineterm='')
UnifiedDiff(a, b, n) ==
    WithFileHeaders(GroupsText(a, b, GetGroupedOpcodes(a, b, n)))

\* ------------------------------------------------------------------------
\* DiffService (backend/app/services/diff_service.py)
\* ------------------------------------------------------------------------
Hunk(orig_start, orig_count, mod_start, mod_count, lines) ==
    [type |-> "hunk", orig_start |-> orig_start, orig_count |-> orig_count,
     mod_start |-> mod_start, mod_count |-> mod_count, lines |-> lines]

DiffLine(type, content) == [type |-> type, content |-> content]

\* line[1:]
Rest(line) == SubSeq(line, 2, Len(line))

\* current_hunk['lines'].append(...) of the loops of generate_diff and
\* parse_diff_from_text: current_hunk is the dict at index current of
\* operations (current = 0 models None)
AppendLine(operations, current, line) ==
    [operations EXCEPT ![current].lines =
        Append(@, IF StartsWith(line, << "-" >>)
                  THEN DiffLine("delete", Rest(line))
                  ELSE IF StartsWith(line, << "+" >>)
                  THEN DiffLine("add", Rest(line))
                  ELSE DiffLine("context", Rest(line)))]

\* only the lines of the old file taken for header lines
IsOldFileHeader(line) == StartsWith(line, << "-", "-", "-" >>)

IsFileHeader(line) ==
    StartsWith(line, << "-", "-", "-" >>) \/ StartsWith(line, << "+", "+", "+" >>)

IsContentLine(line) ==
    \/ StartsWith(line, << "-" >>)
    \/ StartsWith(line, << "+" >>)
    \/ StartsWith(line, << " " >>)

\* one iteration of the loop of generate_diff over the lines of the diff
GenerateStep(st, line) ==
    IF IsFileHeader(line) THEN st
    ELSE IF StartsWith(line, << "@", "@" >>)
    THEN LET match == HeaderMatch(line) IN
         IF match.matched
         THEN [operations |->
                   Append(st.operations,
                          Hunk(match.groups[1], match.groups[2],
                               match.groups[3], match.groups[4], Empty)),
               current |-> Len(st.operations) + 1]
         ELSE st
    ELSE IF st.current # 0 /\ IsContentLine(line)
    THEN [st EXCEPT !.operations = AppendLine(st.operations, st.current, line)]
    ELSE st

RECURSIVE GenerateLoop(_, _)
GenerateLoop(st, diff) ==
    IF diff = Empty THEN st
    ELSE GenerateLoop(GenerateStep(st, Head(diff)), Tail(diff))

\* str.split('\n'): the pieces between line breaks, a last empty one included
RECURSIVE SplitOnBreaks(_, _, _)
SplitOnBreaks(text, i, cur) ==
    IF i > Len(text) THEN << cur >>
    ELSE IF text[i] = NL
         THEN << cur >> \o SplitOnBreaks(text, i + 1, Empty)
         ELSE SplitOnBreaks(text, i + 1, Append(cur, text[i]))

\* the diff with the modified text split by split('\n') instead of splitlines()
DiffOfSplitOnBreaks(original, modified, context_lines) ==
    UnifiedDiff(SplitLines(original), SplitOnBreaks(modified, 1, Empty),
                context_lines)

\* the diff with n left at its default instead of n=context_lines
DiffOfDefaultContext(original, modified, context_lines) ==
    UnifiedDiff(SplitLines(original), SplitLines(modified), DefaultContext)

\* the start of generate_diff: both texts split into lines and given to
\* difflib.unified_diff with n=context_lines and lineterm=''
DiffOf(original, modified, context_lines) ==
    UnifiedDiff(SplitLines(original), SplitLines(modified), context_lines)

\* generate_diff raising an exception on a line that begins with @@ and does
\* not match the header pattern; the exception stands where the hunks would
GenerateRaising(original, modified, context_lines) ==
    LET diff == DiffOf(original, modified, context_lines) IN
    IF \E k \in 1..Len(diff) :
          StartsWith(diff[k], << "@", "@" >>) /\ ~HeaderMatch(diff[k]).matched
    THEN << [raised |-> TRUE] >>
    ELSE GenerateLoop([operations |-> Empty, current |-> 0], diff).operations

\* generate_diff with every new hunk put before the hunks found so far
GenerateNewestFirst(original, modified, context_lines) ==
    LET found == GenerateLoop([operations |-> Empty, current |-> 0],
                              DiffOf(original, modified, context_lines)).operations
    IN  [k \in 1..Len(found) |-> found[Len(found) + 1 - k]]

\* generate_diff(original, modified, context_lines)
generate_diff(original, modified, context_lines) ==
    GenerateLoop([operations |-> Empty, current |-> 0],
                 DiffOf(original, modified, context_lines)).operations

\* the index a list of length n gives a slice bound i
SliceIndex(i, n) == IF i < 0 THEN Max(i + n, 0) ELSE Min(i, n)

\* del lst[start:stop]
DelSlice(lst, start, stop) ==
    LET s == SliceIndex(start, Len(lst))
        e == SliceIndex(stop, Len(lst))
    IN  IF s < e THEN SubSeq(lst, 1, s) \o SubSeq(lst, e + 1, Len(lst)) ELSE lst

\* lst[start:start] = items
InsertSlice(lst, start, items) ==
    LET s == SliceIndex(start, Len(lst))
    IN  SubSeq(lst, 1, s) \o items \o SubSeq(lst, s + 1, Len(lst))

\* the keys apply_diff reads of an operation; reading a missing key raises
HasKey(op, key) == key \in DOMAIN op

\* the number of context and delete lines: the lines of the hunk that the
\* original has
RECURSIVE CountOriginalSide(_)
CountOriginalSide(lines) ==
    IF lines = Empty THEN 0
    ELSE (IF Head(lines).type \in {"context", "delete"} THEN 1 ELSE 0)
         + CountOriginalSide(Tail(lines))

RECURSIVE CountDeletes(_)
CountDeletes(lines) ==
    IF lines = Empty THEN 0
    ELSE (IF Head(lines).type = "delete" THEN 1 ELSE 0) + CountDeletes(Tail(lines))

RECURSIVE AddContents(_)
AddContents(lines) ==
    IF lines = Empty THEN Empty
    ELSE (IF Head(lines).type = "add" THEN << Head(lines).content >> ELSE Empty)
         \o AddContents(Tail(lines))

\* the body of the loop of apply_diff for one hunk
ApplyHunk(result_lines, line_offset, hunk) ==
    LET orig_start == hunk.orig_start - 1
        deletions == CountDeletes(hunk.lines)
        additions == AddContents(hunk.lines)
        adjusted_start == orig_start + line_offset
        removed == IF deletions > 0
                   THEN DelSlice(result_lines, adjusted_start,
                                 adjusted_start + deletions)
                   ELSE result_lines
        added == IF additions # Empty
                 THEN InsertSlice(removed, adjusted_start, additions)
                 ELSE removed
    IN  [result_lines |-> added,
         line_offset |-> line_offset + Len(additions) - deletions]

\* the loop of apply_diff; raised: an operation lacks a key the loop reads
RECURSIVE ApplyLoop(_, _, _)
ApplyLoop(result_lines, line_offset, operations) ==
    IF operations = Empty
    THEN [raised |-> FALSE, text |-> JoinLines(result_lines)]
    ELSE LET hunk == Head(operations) IN
         IF ~HasKey(hunk, "type")
         THEN [raised |-> TRUE, text |-> Empty]
         ELSE IF hunk.type # "hunk"
         THEN ApplyLoop(result_lines, line_offset, Tail(operations))
         ELSE IF ~(HasKey(hunk, "orig_start") /\ HasKey(hunk, "lines"))
         THEN [raised |-> TRUE, text |-> Empty]
         ELSE LET r == ApplyHunk(result_lines, line_offset, hunk) IN
              ApplyLoop(r.result_lines, r.line_offset, Tail(operations))

\* one iteration of the loop of apply_diff over the operations; raised: the
\* operation lacks a key the iteration reads
ApplyStep(st, hunk) ==
    IF ~HasKey(hunk, "type")
    THEN [st EXCEPT !.raised = TRUE]
    ELSE IF hunk.type # "hunk"
    THEN st
    ELSE IF ~(HasKey(hunk, "orig_start") /\ HasKey(hunk, "lines"))
    THEN [st EXCEPT !.raised = TRUE]
    ELSE LET r == ApplyHunk(st.result_lines, st.line_offset, hunk) IN
         [result_lines |-> r.result_lines, line_offset |-> r.line_offset,
          raised |-> FALSE]

\* the text ends with a line break
EndsWithBreak(text) == text # Empty /\ text[Len(text)] = NL

\* apply_diff giving back the line break the original ended with
ApplyKeepingBreak(original, operations) ==
    LET r == ApplyLoop(SplitLines(original), 0, operations) IN
    [raised |-> r.raised,
     text |-> IF ~r.raised /\ EndsWithBreak(original)
              THEN r.text \o << NL >> ELSE r.text]

\* apply_diff(original, operations)
apply_diff(original, operations) ==
    ApplyLoop(SplitLines(original), 0, operations)

InvalidHeaderError(line) == << "Invalid hunk header: " >> \o line

NoOperationsError == << "No valid diff operations found" >>

\* f"Error parsing diff: {str(e)}" for the ValueError of int()
IntLimitError ==
    << "Error parsing diff: Exceeds the limit (4300 digits) for integer string conversion" >>

\* one iteration of the loop of parse_diff_from_text over the input lines;
\* raised: int() raised, which the except clause around the loop catches
ParseStep(st, line) ==
    IF IsFileHeader(line) THEN st
    ELSE IF StartsWith(line, << "@", "@" >>)
    THEN LET match == HeaderMatch(line) IN
         IF match.matched /\ match.overlong
         THEN [st EXCEPT !.raised = TRUE]
         ELSE IF match.matched
         THEN [st EXCEPT
                 !.operations =
                     Append(st.operations,
                            Hunk(match.groups[1], match.groups[2],
                                 match.groups[3], match.groups[4], Empty)),
                 !.current = Len(st.operations) + 1]
         ELSE [st EXCEPT !.errors = Append(@, InvalidHeaderError(line))]
    ELSE IF st.current # 0 /\ IsContentLine(line)
    THEN [st EXCEPT !.operations = AppendLine(st.operations, st.current, line)]
    ELSE st

\* the loop, left at the first iteration that raises
RECURSIVE ParseLoop(_, _)
ParseLoop(st, lines) ==
    IF lines = Empty \/ st.raised THEN st
    ELSE ParseLoop(ParseStep(st, Head(lines)), Tail(lines))

ParseStart ==
    [operations |-> Empty, errors |-> Empty, current |-> 0, raised |-> FALSE]

\* the errors after the except clause
CaughtErrors(st) ==
    IF st.raised THEN Append(st.errors, IntLimitError) ELSE st.errors

\* the end of parse_diff_from_text without the check for an empty result
ParseFinishUnchecked(st) ==
    [operations |-> st.operations, errors |-> CaughtErrors(st)]

\* the end of parse_diff_from_text with an exception instead of the generic
\* error when nothing was found
ParseFinishRaising(st) ==
    IF st.operations = Empty /\ CaughtErrors(st) = Empty
    THEN [raised |-> TRUE]
    ELSE [operations |-> st.operations, errors |-> CaughtErrors(st)]

\* the lines of the hunk are not as many as its header declares
CountsDiffer(hunk) ==
    \/ CountOriginalSide(hunk.lines) # hunk.orig_count
    \/ Len(hunk.lines) - CountDeletes(hunk.lines) # hunk.mod_count

\* the end of parse_diff_from_text with an error for a hunk whose lines are
\* not as many as declared
ParseFinishCounting(st) ==
    [operations |-> st.operations,
     errors |->
        (IF st.operations = Empty /\ CaughtErrors(st) = Empty
         THEN << NoOperationsError >> ELSE CaughtErrors(st))
        \o (IF \E k \in 1..Len(st.operations) : CountsDiffer(st.operations[k])
            THEN << << "Hunk line counts differ from its header" >> >>
            ELSE Empty)]

\* the end of parse_diff_from_text: the except clause, and the generic error
\* when nothing was found
ParseFinish(st) ==
    [operations |-> st.operations,
     errors |-> IF st.operations = Empty /\ CaughtErrors(st) = Empty
                THEN << NoOperationsError >> ELSE CaughtErrors(st)]

\* parse_diff_from_text(diff_text)
parse_diff_from_text(diff_text) ==
    ParseFinish(ParseLoop(ParseStart, SplitLines(diff_text)))

\* ------------------------------------------------------------------------
\* The engine on bounded inputs: generate_diff, then apply_diff of its result
\* to the original, then parse_diff_from_text of the unified diff text
\* ------------------------------------------------------------------------
VARIABLES
    original,       \* the original text given to generate_diff and apply_diff
    modified,       \* the modified text given to generate_diff
    context_lines,  \* the context_lines argument
    pc,             \* where the calls are: "start", "generated", "applied",
                    \* "parsed"; "parsing", "returned", "answered"; "request",
                    \* "responded"
    operations,     \* what generate_diff returned; the diff_operations of
                    \* the /apply request
    diff_text,      \* the lines of difflib.unified_diff joined by line
                    \* breaks; the text given to parse_diff_from_text
    applied,        \* what apply_diff(original, operations) returned
    parsed,         \* what parse_diff_from_text(diff_text) returned
    parser,         \* the locals of the loop of parse_diff_from_text
    store,          \* the project directory and the file of the request
    response,       \* the answer of the /apply and of the /parse endpoint
    calls           \* the frames of the calls that run at the same time

vars == << original, modified, context_lines, pc, operations, diff_text,
           applied, parsed, parser, store, response, calls >>

\* all sequences over S of at most n elements
RECURSIVE SeqsUpTo(_, _)
SeqsUpTo(S, n) ==
    IF n = 0 THEN { Empty }
    ELSE LET shorter == SeqsUpTo(S, n - 1) IN
         shorter \cup { Append(q, x) : q \in { r \in shorter : Len(r) = n - 1 },
                                       x \in S }

LineA == << "a" >>
LineB == << "b" >>
LineC == << "c" >>
LineX == << "x" >>
LineMinus == << "-", "-" >>
LinePlus == << "+", "+" >>

\* the (original lines, modified lines, context_lines) the engine is run on
EngineInputs ==
    (SeqsUpTo({LineA, LineB, LineC}, MaxLen)
        \X SeqsUpTo({LineA, LineC, LineX}, MaxLen) \X {DefaultContext})
    \cup (SeqsUpTo({LineA, LineB}, MaxLenLong)
        \X SeqsUpTo({LineA, LineB}, MaxLen) \X (0..MaxContext))
    \cup (SeqsUpTo({LineA, LineMinus, LinePlus}, MaxLenMarks)
        \X SeqsUpTo({LineA, LineMinus, LinePlus}, MaxLenMarks)
        \X {0, DefaultContext})
    \cup (SeqsUpTo({LineA, LineMinus}, MaxLen + 1)
        \X SeqsUpTo({LineA, LineX}, MaxLen) \X (0..MaxContext))

\* a text of the given lines, with or without a line break after the last
TextOf(lines, terminated) ==
    JoinLines(lines) \o (IF terminated THEN << NL >> ELSE Empty)

NoApplied == [raised |-> FALSE, text |-> Empty]
NoParsed == [operations |-> Empty, errors |-> Empty]
NoParser == [todo |-> Empty, operations |-> Empty, errors |-> Empty,
             current |-> 0, raised |-> FALSE]
NoStore == [project |-> FALSE, exists |-> FALSE, content |-> Empty]
NoResponse == [status |-> 0, detail |-> "", content |-> Empty]
NoCalls == << >>

Init ==
    /\ \E in \in EngineInputs, terminated \in BOOLEAN :
          /\ original = TextOf(in[1], terminated)
          /\ modified = TextOf(in[2], terminated)
          /\ context_lines = in[3]
    /\ pc = "start"
    /\ operations = Empty
    /\ diff_text = Empty
    /\ applied = NoApplied
    /\ parsed = NoParsed
    /\ parser = NoParser
    /\ store = NoStore
    /\ response = NoResponse
    /\ calls = NoCalls

\* a call of generate_diff(original, modified, context_lines)
Generate ==
    /\ pc = "start"
    /\ operations' = generate_diff(original, modified, context_lines)
    /\ diff_text' = JoinLines(DiffOf(original, modified, context_lines))
    /\ pc' = "generated"
    /\ UNCHANGED << original, modified, context_lines, applied, parsed,
                    parser, store, response, calls >>

\* a call of apply_diff(original, operations) with the generated operations
Apply ==
    /\ pc = "generated"
    /\ applied' = apply_diff(original, operations)
    /\ pc' = "applied"
    /\ UNCHANGED << original, modified, context_lines, operations, diff_text,
                    parsed, parser, store, response, calls >>

\* a call of parse_diff_from_text on the unified diff text
Parse ==
    /\ pc = "applied"
    /\ parsed' = parse_diff_from_text(diff_text)
    /\ pc' = "parsed"
    /\ UNCHANGED << original, modified, context_lines, operations, diff_text,
                    applied, parser, store, response, calls >>

Next == Generate \/ Apply \/ Parse

Spec == Init /\ [][Next]_vars

\* ------------------------------------------------------------------------
\* parse_diff_from_text on bounded inputs, one iteration of its loop a step
\* ------------------------------------------------------------------------
FileHeaderOld == << "-", "-", "-", " " >>
FileHeaderNew == << "+", "+", "+", " " >>
HeaderOne == << "@", "@", " ", "-", "1", ",", "2", " ", "+", "1", ",", "2",
                " ", "@", "@" >>
HeaderTwo == << "@", "@", " ", "-", "3", ",", "1", " ", "+", "4", ",", "0",
                " ", "@", "@" >>
HeaderNoCounts == << "@", "@", " ", "-", "1", " ", "+", "1", " ", "@", "@" >>
HeaderNotAHeader == << "@", "@", " ", "n", "o", "t", "-", "a", "-", "h", "e",
                       "a", "d", "e", "r", " ", "@", "@" >>
LineAddX == << "+", "x" >>
LineDeleteB == << "-", "b" >>
LineContextC == << " ", "c" >>
\* the delete line of the content "--"
LineDeleteMinus == << "-" >> \o LineMinus

\* a header whose first number has one digit more than int() converts
HeaderOverlong ==
    << "@", "@", " ", "-" >> \o [k \in 1..(IntMaxStrDigits + 1) |-> "1"]
        \o << ",", "1", " ", "+", "1", ",", "1", " ", "@", "@" >>

\* the lines the inputs with an overlong header are made of
OverlongLines == { HeaderOne, HeaderOverlong }

\* the lines the inputs of the parser are made of
ParserLines ==
    { FileHeaderOld, FileHeaderNew, HeaderOne, HeaderTwo, HeaderNoCounts,
      HeaderNotAHeader, LineAddX, LineDeleteB, LineContextC, LineX,
      LineDeleteMinus }

InitParse ==
    /\ \E lines \in SeqsUpTo(ParserLines, MaxParseLines)
                        \cup SeqsUpTo(OverlongLines, MaxParseLines) :
          diff_text = JoinLines(lines)
    /\ pc = "parsing"
    /\ parser = [todo |-> SplitLines(diff_text), operations |-> Empty,
                 errors |-> Empty, current |-> 0, raised |-> FALSE]
    /\ parsed = NoParsed
    /\ original = Empty
    /\ modified = Empty
    /\ context_lines = DefaultContext
    /\ operations = Empty
    /\ applied = NoApplied
    /\ store = NoStore
    /\ response = NoResponse
    /\ calls = NoCalls

\* the locals of the loop as ParseStep reads and writes them
LoopState(p) ==
    [operations |-> p.operations, errors |-> p.errors, current |-> p.current,
     raised |-> p.raised]

\* one iteration of the loop over diff_text.splitlines()
ParseLine ==
    /\ pc = "parsing"
    /\ parser.todo # Empty
    /\ ~parser.raised
    /\ LET st == ParseStep(LoopState(parser), Head(parser.todo)) IN
       parser' = [todo |-> Tail(parser.todo), operations |-> st.operations,
                  errors |-> st.errors, current |-> st.current,
                  raised |-> st.raised]
    /\ UNCHANGED << original, modified, context_lines, pc, operations,
                    diff_text, applied, parsed, store, response, calls >>

\* the end of the loop: the generic error if nothing was found, and the return
ParseReturn ==
    /\ pc = "parsing"
    /\ parser.todo = Empty \/ parser.raised
    /\ parsed' = ParseFinish(LoopState(parser))
    /\ pc' = "returned"
    /\ UNCHANGED << original, modified, context_lines, operations, diff_text,
                    applied, parser, store, response, calls >>

\* "success" always True, as in the answer without errors
ParseSuccessAlways(ops, errors) == TRUE

\* "success" of the answer of POST /parse
ParseSuccess(ops, errors) == IF errors # Empty THEN Len(ops) > 0 ELSE TRUE

\* the answer of POST /parse to what parse_diff_from_text returned
ParseResponse(result) ==
    [status |-> 200, operations |-> result.operations,
     errors |-> result.errors,
     success |-> ParseSuccess(result.operations, result.errors)]

\* the call left by an exception instead of a return
Raised(result) == "raised" \in DOMAIN result

\* the handler of POST /parse after the call of parse_diff_from_text; its
\* except clause answers an exception of the call with status 500
ParseRespond ==
    /\ pc = "returned"
    /\ response' = IF Raised(parsed)
                   THEN [status |-> 500, detail |-> "Error parsing diff",
                         content |-> Empty]
                   ELSE ParseResponse(parsed)
    /\ pc' = "answered"
    /\ UNCHANGED << original, modified, context_lines, operations, diff_text,
                    applied, parsed, parser, store, calls >>

NextParse == ParseLine \/ ParseReturn \/ ParseRespond

SpecParse == InitParse /\ [][NextParse]_vars

\* ------------------------------------------------------------------------
\* POST /api/diff/apply (backend/app/api/diff.py) on one file of one project
\* ------------------------------------------------------------------------
LineZ == << "z" >>

\* the lines of the hunks of the requests
HunkBodies ==
    { << DiffLine("delete", LineB) >>,
      << DiffLine("add", LineZ) >>,
      << DiffLine("context", LineA), DiffLine("delete", LineB),
         DiffLine("add", LineZ) >>,
      << DiffLine("delete", LineB), DiffLine("delete", LineC) >> }

RECURSIVE CountAdds(_)
CountAdds(lines) ==
    IF lines = Empty THEN 0
    ELSE (IF Head(lines).type = "add" THEN 1 ELSE 0) + CountAdds(Tail(lines))

\* a hunk at orig_start with the given lines and the counts of these lines
HunkAt(start, lines) ==
    Hunk(start, Len(lines) - CountAdds(lines), start,
         Len(lines) - CountDeletes(lines), lines)

\* a dict without the key 'type', and a dict of another type than 'hunk'
OpWithoutType == [orig_start |-> 1]
OpOfOtherType == [type |-> "comment"]

\* the elements of diff_operations (List[Dict[str, Any]]) of the requests
RequestOps ==
    { HunkAt(start, lines) : start \in 0..MaxStart, lines \in HunkBodies }
        \cup { OpWithoutType, OpOfOtherType }

\* the project directory and the file before the request
Stores ==
    { [project |-> FALSE, exists |-> FALSE, content |-> Empty],
      [project |-> TRUE, exists |-> FALSE, content |-> Empty],
      [project |-> TRUE, exists |-> TRUE,
       content |-> TextOf(<< LineA, LineB >>, FALSE)],
      [project |-> TRUE, exists |-> TRUE,
       content |-> TextOf(<< LineA, LineB, LineC >>, TRUE)],
      [project |-> TRUE, exists |-> TRUE,
       content |-> TextOf(<< LineA, Empty >>, TRUE)] }

InitApi ==
    /\ store \in Stores
    /\ operations \in SeqsUpTo(RequestOps, MaxOps)
    /\ pc = "request"
    /\ response = NoResponse
    /\ calls = NoCalls
    /\ original = Empty
    /\ applied = NoApplied
    /\ modified = Empty
    /\ context_lines = DefaultContext
    /\ diff_text = Empty
    /\ parsed = NoParsed
    /\ parser = NoParser

\* the handler of POST /apply: read_file, apply_diff, write_file.  read_file
\* raises ValueError without the project directory (400); the HTTPException of
\* a missing file and an exception of apply_diff are caught by the last
\* except clause (500); nothing is written unless apply_diff returned
ApplyRequest ==
    /\ pc = "request"
    /\ pc' = "responded"
    /\ IF ~store.project
       THEN /\ response' = [status |-> 400, detail |-> "Project not found",
                            content |-> Empty]
            /\ UNCHANGED << original, applied, store >>
       ELSE IF ~store.exists
       THEN /\ response' = [status |-> 500,
                            detail |-> "Error applying diff: File not found",
                            content |-> Empty]
            /\ UNCHANGED << original, applied, store >>
       ELSE /\ original' = store.content
            /\ applied' = apply_diff(store.content, operations)
            /\ IF applied'.raised
               THEN /\ response' = [status |-> 500,
                                    detail |-> "Error applying diff: KeyError",
                                    content |-> Empty]
                    /\ UNCHANGED store
               ELSE /\ store' = [store EXCEPT !.content = applied'.text]
                    /\ response' = [status |-> 200, detail |-> "success",
                                    content |-> applied'.text]
    /\ UNCHANGED << modified, context_lines, operations, diff_text, parsed,
                    parser, calls >>

\* the modified_content of the requests to POST /generate
ModifiedContents ==
    { Empty, JoinLines(<< LineA, LineX >>), JoinLines(<< LineA, LineX, LineC >>) }

\* the handler of POST /generate: read_file, generate_diff with the default
\* context.  read_file raises ValueError without the project directory (400);
\* the HTTPException of a missing file is caught by the last except clause
\* (500); the answer is the list of hunks, and nothing is written
GenerateRequest ==
    /\ pc = "request"
    /\ pc' = "generate_responded"
    /\ \E body \in ModifiedContents :
          /\ modified' = body
          /\ IF ~store.project
             THEN /\ response' = [status |-> 400, detail |-> "Project not found",
                                  content |-> Empty]
                  /\ UNCHANGED original
             ELSE IF ~store.exists
             THEN /\ response' = [status |-> 500,
                                  detail |-> "Error generating diff: File not found",
                                  content |-> Empty]
                  /\ UNCHANGED original
             ELSE /\ original' = store.content
                  /\ response' = [status |-> 200, detail |-> "success",
                                  content |-> generate_diff(store.content, body,
                                                            DefaultContext)]
    /\ UNCHANGED << context_lines, operations, diff_text, applied, parsed,
                    parser, store, calls >>

NextApi == ApplyRequest \/ GenerateRequest

SpecApi == InitApi /\ [][NextApi]_vars

\* ------------------------------------------------------------------------
\* Two calls on the one DiffService instance diff_service (api/diff.py:12)
\* that run at the same time, one iteration of a loop of a call a step.  The
\* class has no attribute: all a call reads and writes are its arguments and
\* its locals, kept in its own frame
\* ------------------------------------------------------------------------
Calls == {1, 2}

\* the frame of a call at its start: its arguments, what its loop has left
\* to iterate over, and its locals
GenerateCall(orig, mod, n) ==
    [kind |-> "generate",
     args |-> [original |-> orig, modified |-> mod, context_lines |-> n],
     todo |-> DiffOf(orig, mod, n),
     st |-> [operations |-> Empty, current |-> 0],
     done |-> FALSE, result |-> Empty]

ParseCall(text) ==
    [kind |-> "parse",
     args |-> [diff_text |-> text],
     todo |-> SplitLines(text),
     st |-> ParseStart,
     done |-> FALSE, result |-> Empty]

ApplyCall(orig, ops) ==
    [kind |-> "apply",
     args |-> [original |-> orig, operations |-> ops],
     todo |-> ops,
     st |-> [result_lines |-> SplitLines(orig), line_offset |-> 0,
             raised |-> FALSE],
     done |-> FALSE, result |-> Empty]

\* the calls that are made
CallsMade ==
    { GenerateCall(JoinLines(o), JoinLines(<< LineA, LineX >>), DefaultContext) :
          o \in SeqsUpTo({LineA, LineB}, MaxConcLen) }
    \cup { ParseCall(JoinLines(t)) :
              t \in SeqsUpTo({HeaderOne, LineAddX}, MaxConcLen) }
    \cup { ApplyCall(JoinLines(<< LineA, LineB, LineC >>), ops) :
              ops \in SeqsUpTo({ Hunk(1, 1, 1, 1, << DiffLine("delete", LineA),
                                                     DiffLine("add", LineX) >>),
                                 Hunk(3, 0, 3, 1, << DiffLine("add", LineX) >>) },
                               MaxConcLen) }

InitConc ==
    /\ calls \in [Calls -> CallsMade]
    /\ pc = "calls"
    /\ original = Empty
    /\ modified = Empty
    /\ context_lines = DefaultContext
    /\ operations = Empty
    /\ diff_text = Empty
    /\ applied = NoApplied
    /\ parsed = NoParsed
    /\ parser = NoParser
    /\ store = NoStore
    /\ response = NoResponse

\* the locals as if the instance kept them in attributes, one set for each
\* of its methods: those of the first call of the same method
LocalsOfMethod(cs, c) ==
    IF cs[1].kind = cs[c].kind THEN cs[1].st ELSE cs[c].st

\* the locals call c reads: those of its own frame
LocalsOf(cs, c) == cs[c].st

\* one iteration of the loop of a call
StepOf(kind, st, item) ==
    CASE kind = "generate" -> GenerateStep(st, item)
      [] kind = "parse" -> ParseStep(st, item)
      [] kind = "apply" -> ApplyStep(st, item)

\* the loop of the call is over: nothing is left, or an iteration raised
LoopEnded(frame) ==
    \/ frame.todo = Empty
    \/ (frame.kind \in {"parse", "apply"} /\ frame.st.raised)

\* what the call returns after its loop
ReturnOf(kind, st) ==
    CASE kind = "generate" -> st.operations
      [] kind = "parse" -> ParseFinish(st)
      [] kind = "apply" ->
            [raised |-> st.raised,
             text |-> IF st.raised THEN Empty ELSE JoinLines(st.result_lines)]

\* call c runs one iteration of its loop
CallStep(c) ==
    /\ pc = "calls"
    /\ ~calls[c].done
    /\ ~LoopEnded(calls[c])
    /\ calls' = [calls EXCEPT
                   ![c].st = StepOf(calls[c].kind, LocalsOf(calls, c),
                                    Head(calls[c].todo)),
                   ![c].todo = Tail(@)]
    /\ UNCHANGED << original, modified, context_lines, pc, operations,
                    diff_text, applied, parsed, parser, store, response >>

\* call c returns
CallReturn(c) ==
    /\ pc = "calls"
    /\ ~calls[c].done
    /\ LoopEnded(calls[c])
    /\ calls' = [calls EXCEPT
                   ![c].result = ReturnOf(calls[c].kind, LocalsOf(calls, c)),
                   ![c].done = TRUE]
    /\ UNCHANGED << original, modified, context_lines, pc, operations,
                    diff_text, applied, parsed, parser, store, response >>

NextConc == \E c \in Calls : CallStep(c) \/ CallReturn(c)

SpecConc == InitConc /\ [][NextConc]_vars

\* ------------------------------------------------------------------------
\* Two POST /api/diff/apply requests for the same file that are in flight at
\* the same time.  The server is one process (main.py:17-22, "workers": 1)
\* with one event loop; the handler is an async def without any await
\* (api/diff.py:52-93, read_file and write_file are plain functions), so the
\* event loop runs the handler of a request from its read to its answer
\* before it runs anything of another request
\* ------------------------------------------------------------------------
\* the handler of POST /apply on the file as read_file finds it: the file
\* after the handler and the answer
ApplyHandler(file, ops) ==
    IF ~file.project
    THEN [store |-> file,
          response |-> [status |-> 400, detail |-> "Project not found",
                        content |-> Empty]]
    ELSE IF ~file.exists
    THEN [store |-> file,
          response |-> [status |-> 500,
                        detail |-> "Error applying diff: File not found",
                        content |-> Empty]]
    ELSE LET r == apply_diff(file.content, ops) IN
         IF r.raised
         THEN [store |-> file,
               response |-> [status |-> 500,
                             detail |-> "Error applying diff: KeyError",
                             content |-> Empty]]
         ELSE [store |-> [file EXCEPT !.content = r.text],
               response |-> [status |-> 200, detail |-> "success",
                             content |-> r.text]]

\* the diff_operations of the requests: no hunk or one hunk
SerialPatches ==
    { Empty } \cup { << op >> : op \in
        { HunkAt(start, lines) : start \in 1..MaxStart, lines \in HunkBodies }
            \cup { OpWithoutType } }

InitSerial ==
    /\ store \in { st \in Stores : st.project }
    /\ \E patches \in [Calls -> SerialPatches] :
          calls = [r \in Calls |->
                      [operations |-> patches[r], arrived |-> store,
                       done |-> FALSE, response |-> NoResponse]]
    /\ original = store.content
    /\ pc = "serving"
    /\ response = NoResponse
    /\ applied = NoApplied
    /\ modified = Empty
    /\ context_lines = DefaultContext
    /\ operations = Empty
    /\ diff_text = Empty
    /\ parsed = NoParsed
    /\ parser = NoParser

\* the file as it was when request r arrived
FileAtArrival(r) == calls[r].arrived

\* the file read_file gives the handler of request r: the file as it is when
\* the event loop runs the handler
FileRead(r) == store

\* the event loop runs the handler of request r, whole
HandleRequest(r) ==
    /\ pc = "serving"
    /\ ~calls[r].done
    /\ LET out == ApplyHandler(FileRead(r), calls[r].operations) IN
          /\ store' = out.store
          /\ calls' = [calls EXCEPT ![r].done = TRUE,
                                    ![r].response = out.response]
    /\ UNCHANGED << original, modified, context_lines, pc, operations,
                    diff_text, applied, parsed, parser, response >>

NextSerial == \E r \in Calls : HandleRequest(r)

SpecSerial == InitSerial /\ [][NextSerial]_vars

\* ------------------------------------------------------------------------
\* Claims about the engine (specification Spec)
\* ------------------------------------------------------------------------
Generated == pc \in {"generated", "applied", "parsed"}
WasApplied == pc \in {"applied", "parsed"}

OriginalLines == SplitLines(original)
ModifiedLines == SplitLines(modified)

TextABC == JoinLines(<< LineA, LineB, LineC >>)
TextAXC == JoinLines(<< LineA, LineX, LineC >>)

\* C1: round trip. With the default context_lines, apply_diff of the original
\* and the generated operations returns the lines of modified joined by
\* single line breaks.
C1_RoundTrip ==
    (WasApplied /\ context_lines = DefaultContext)
        => (~applied.raised /\ applied.text = JoinLines(ModifiedLines))

\* C2: scenario A. For original a,b,c and modified a,x,c generate_diff yields
\* the one hunk [context a, delete b, add x, context c] with starts 1 and
\* counts 3, and apply_diff of the original and that hunk returns a,x,c.
C2_ScenarioA ==
    (WasApplied /\ original = TextABC /\ modified = TextAXC
                /\ context_lines = DefaultContext)
        => /\ operations =
                << Hunk(1, 3, 1, 3, << DiffLine("context", LineA),
                                       DiffLine("delete", LineB),
                                       DiffLine("add", LineX),
                                       DiffLine("context", LineC) >>) >>
           /\ ~applied.raised
           /\ applied.text = TextAXC

\* C6: idempotence of generate. generate_diff(x, x, context_lines) returns an
\* empty list of hunks for every text x and every context_lines.
C6_GenerateSameIsEmpty ==
    (Generated /\ original = modified) => operations = Empty

\* a text of several lines given as both original and modified
C6_Witness ==
    /\ Generated
    /\ original = modified
    /\ Len(OriginalLines) >= 2
    /\ context_lines = 0
    /\ operations = Empty

\* C7: parser/generator agreement. parse_diff_from_text of the unified diff
\* text generate_diff reads returns the hunks generate_diff returned and no
\* error (stated for the inputs whose diff text is not empty).
C7_ParserAgreesWithGenerator ==
    (pc = "parsed" /\ diff_text # Empty)
        => (parsed.operations = operations /\ parsed.errors = Empty)

IsOriginalSide(line) == line.type \in {"context", "delete"}

\* the context and delete lines of the hunk are the original lines
\* orig_start .. orig_start + orig_count - 1
SpansOriginal(hunk, lines) ==
    LET side == SelectSeq(hunk.lines, IsOriginalSide) IN
    /\ Len(side) = hunk.orig_count
    /\ \A k \in 1..Len(side) :
          /\ hunk.orig_start + k - 1 \in 1..Len(lines)
          /\ lines[hunk.orig_start + k - 1] = side[k].content

\* C8: hunk composition. Every line of every generated hunk is a context, an
\* add or a delete line, and the context and delete lines of a hunk are, in
\* order, the original lines orig_start .. orig_start + orig_count - 1.
C8_HunkComposition ==
    Generated =>
        \A h \in 1..Len(operations) :
            /\ \A k \in 1..Len(operations[h].lines) :
                   operations[h].lines[k].type \in {"context", "add", "delete"}
            /\ SpansOriginal(operations[h], OriginalLines)

\* the lengths of the unchanged ranges between two successive changed regions
RECURSIVE InnerGaps(_, _)
InnerGaps(codes, k) ==
    IF k >= Len(codes) THEN Empty
    ELSE (IF k > 1 /\ codes[k].tag = "equal"
          THEN << codes[k].i2 - codes[k].i1 >> ELSE Empty)
         \o InnerGaps(codes, k + 1)

\* the number of changed regions in each group, when the regions are put in
\* groups along gaps and a new group starts at the gaps in splits
RECURSIVE RegionsByGaps(_, _, _)
RegionsByGaps(gaps, splits, groups) ==
    IF gaps = Empty THEN groups
    ELSE RegionsByGaps(Tail(gaps), splits,
            IF Head(gaps) \in splits
            THEN Append(groups, 1)
            ELSE [groups EXCEPT ![Len(groups)] = @ + 1])

IsChangeLine(line) == StartsWith(line, << "-" >>) \/ StartsWith(line, << "+" >>)

\* the number of changed regions (runs of - and + lines) under each @@ line
\* of the lines of a unified diff
RECURSIVE RegionsPerGroup(_, _, _)
RegionsPerGroup(lines, k, groups) ==
    IF k > Len(lines) THEN groups
    ELSE RegionsPerGroup(lines, k + 1,
            IF StartsWith(lines[k], << "@", "@" >>) THEN Append(groups, 0)
            ELSE IF /\ groups # Empty
                    /\ IsChangeLine(lines[k])
                    /\ ~IsChangeLine(lines[k - 1])
            THEN [groups EXCEPT ![Len(groups)] = @ + 1]
            ELSE groups)

Gaps == InnerGaps(GetOpcodes(OriginalLines, ModifiedLines), 1)

HasChange == OriginalLines # ModifiedLines

\* the groups of changed regions of the diff text, and what they are when a
\* new group starts exactly at the gaps in splits
GroupingIs(splits) ==
    RegionsPerGroup(SplitLines(diff_text), 1, Empty)
        = (IF HasChange THEN RegionsByGaps(Gaps, splits, << 1 >>) ELSE Empty)

AllGaps == 0..(MaxLen + MaxLenLong + MaxLenMarks)

ApplyWasCalled ==
    pc = "responded" /\ response.detail \in {"success", "Error applying diff: KeyError"}

\* some hunk of the operations is out of range: when its turn comes,
\* adjusted_start = (orig_start - 1) + line_offset is negative or beyond the
\* length of the working lines, or its deletions run past their end
RECURSIVE SomeHunkOutOfRange(_, _, _)
SomeHunkOutOfRange(result_lines, line_offset, ops) ==
    IF ops = Empty THEN FALSE
    ELSE LET hunk == Head(ops) IN
         IF ~HasKey(hunk, "type") THEN FALSE
         ELSE IF hunk.type # "hunk"
         THEN SomeHunkOutOfRange(result_lines, line_offset, Tail(ops))
         ELSE LET adjusted_start == (hunk.orig_start - 1) + line_offset
                  r == ApplyHunk(result_lines, line_offset, hunk)
              IN  \/ adjusted_start < 0
                  \/ adjusted_start > Len(result_lines)
                  \/ adjusted_start + CountDeletes(hunk.lines) > Len(result_lines)
                  \/ SomeHunkOutOfRange(r.result_lines, r.line_offset, Tail(ops))

\* C3: apply_diff fails, and returns no text, whenever some hunk is out of
\* range; in particular when orig_start is beyond the number of original
\* lines + 1.
C3_OutOfRangeHunkFails ==
    (ApplyWasCalled /\ SomeHunkOutOfRange(SplitLines(original), 0, operations))
        => applied.raised

\* C4: when a hunk of an /apply request cannot be applied the request is
\* reported as failed and the stored file is left as it was.
C4_FailedApplyLeavesFile ==
    (ApplyWasCalled /\ SomeHunkOutOfRange(SplitLines(original), 0, operations))
        => (response.status # 200 /\ store.content = original)

\* ------------------------------------------------------------------------
\* Claims about parse_diff_from_text (specification SpecParse)
\* ------------------------------------------------------------------------
InputLines == SplitLines(diff_text)

\* the input lines the loop has gone through
Consumed == SubSeq(InputLines, 1, Len(InputLines) - Len(parser.todo))

IsHeaderLine(line) == StartsWith(line, << "@", "@" >>)

IsMalformedHeader(line) == IsHeaderLine(line) /\ ~HeaderMatch(line).matched

\* the index of the last line of lines that begins with @@, 0 without one
LastHeader(lines) ==
    SetMax({0} \cup { k \in 1..Len(lines) : IsHeaderLine(lines[k]) })

\* C5: a line that begins with @@ and does not match the header pattern
\* records one error and creates no hunk, and every content line after it, up
\* to the next valid header, is attached to no hunk: as long as such a line
\* is the last @@ line the loop went through, the hunks are the hunks the
\* loop had before it and the errors are those with the one of this line
\* added.
C5_MalformedHeaderDropsLines ==
    LET k == LastHeader(Consumed) IN
    (pc = "parsing" /\ k > 0 /\ IsMalformedHeader(Consumed[k]))
        => LET before == ParseLoop(ParseStart, SubSeq(Consumed, 1, k - 1)) IN
           /\ parser.operations = before.operations
           /\ parser.errors = Append(before.errors, InvalidHeaderError(Consumed[k]))

\* C10: when the loop ends with no hunk and no error the result is no hunk
\* and the one generic error; so it is for the empty text and for every
\* input without a line that begins with @@.
C10_GenericErrorWhenNothingFound ==
    pc = "returned" =>
        /\ (parser.operations = Empty /\ CaughtErrors(LoopState(parser)) = Empty)
               => parsed = [operations |-> Empty, errors |-> << NoOperationsError >>]
        /\ (\A k \in 1..Len(InputLines) : ~IsHeaderLine(InputLines[k]))
               => parsed = [operations |-> Empty, errors |-> << NoOperationsError >>]

\* an input of content lines without any @@ line returned the generic error
C10_Witness ==
    /\ pc = "returned"
    /\ \E k \in 1..Len(InputLines) : InputLines[k] = LineAddX
    /\ \A k \in 1..Len(InputLines) : ~IsHeaderLine(InputLines[k])
    /\ parsed = [operations |-> Empty, errors |-> << NoOperationsError >>]

\* C11: the success flag of the answer of POST /parse is true exactly when at
\* least one hunk was parsed, whatever the errors are.
C11_SuccessIffSomeHunk ==
    pc = "answered" => (response.success <=> Len(parsed.operations) > 0)

\* an answer with a hunk and an error, and success true
C11_Witness ==
    /\ pc = "answered"
    /\ Len(response.operations) > 0
    /\ response.errors # Empty
    /\ response.success

\* a pair (operations, errors) of two lists
IsParseResult(result) ==
    /\ DOMAIN result = {"operations", "errors"}
    /\ DOMAIN result.operations = 1..Len(result.operations)
    /\ DOMAIN result.errors = 1..Len(result.errors)

\* the locals of the loop: two lists, the current hunk (or none), and whether
\* an exception was caught
IsLoopState(st) ==
    /\ DOMAIN st = {"operations", "errors", "current", "raised"}
    /\ DOMAIN st.operations = 1..Len(st.operations)
    /\ DOMAIN st.errors = 1..Len(st.errors)
    /\ st.current \in 0..Len(st.operations)
    /\ st.raised \in BOOLEAN

\* C12: parse_diff_from_text never raises: for every input, the empty text
\* and text without any diff line included, the call terminates and returns
\* a pair of hunks and errors.  Every iteration of the loop on a line left
\* to read yields the locals of the loop again, every step of the call
\* leaves fewer lines to read or is the return, and what is returned is a
\* pair of two lists.
C12_AlwaysReturnsPair ==
    /\ []((pc = "parsing" /\ parser.todo # Empty /\ ~parser.raised)
            => IsLoopState(ParseStep(LoopState(parser), Head(parser.todo))))
    /\ [][pc = "parsing" =>
              (pc' = "returned" \/ Len(parser'.todo) < Len(parser.todo))]_vars
    /\ [](pc = "returned" => IsParseResult(parsed))

\* the call on the empty text returned no hunk and the generic error
C12_Witness ==
    /\ pc = "returned"
    /\ diff_text = Empty
    /\ IsParseResult(parsed)
    /\ parsed.operations = Empty
    /\ parsed.errors = << NoOperationsError >>

\* the diff line a content line stands for: its first character tells the
\* type, the rest is the content
DiffLineOf(line) ==
    DiffLine(IF line[1] = "-" THEN "delete"
             ELSE IF line[1] = "+" THEN "add" ELSE "context",
             Rest(line))

\* C20: while parse_diff_from_text has a current hunk, an iteration of its
\* loop on a line that begins with '-', '+' or a space appends to the current
\* hunk the delete, add or context line of the rest of the line, whatever
\* the rest is, '--' and '++' at its start included.
C20_ContentLinesAppended ==
    [][(/\ pc = "parsing" /\ pc' = "parsing"
        /\ parser.todo # Empty
        /\ parser.current # 0
        /\ IsContentLine(Head(parser.todo)))
          => parser'.operations =
                [parser.operations EXCEPT ![parser.current].lines =
                    Append(@, DiffLineOf(Head(parser.todo)))]]_vars

\* the line begins with '---' or with '+++'
BeginsWithMarker(line) ==
    Len(line) >= 3 /\ SubSeq(line, 1, 3) \in { << "-", "-", "-" >>,
                                                << "+", "+", "+" >> }

\* C21: a line that begins with '---' or '+++' changes nothing in
\* parse_diff_from_text: the hunks, the lines of every hunk, the current hunk
\* and the errors are after the line what they were before it, wherever the
\* line is.
C21_MarkerLineChangesNothing ==
    [][(/\ pc = "parsing" /\ pc' = "parsing"
        /\ parser.todo # Empty
        /\ BeginsWithMarker(Head(parser.todo)))
          => parser' = [parser EXCEPT !.todo = Tail(@)]]_vars

\* the loop went through a '+++' line after a header and a content line, and
\* its locals are those of the lines before it
C21_Witness ==
    /\ pc = "parsing"
    /\ Len(Consumed) = 3
    /\ Consumed[3] = FileHeaderNew
    /\ parser.current = 1
    /\ Len(parser.operations[1].lines) = 1
    /\ LoopState(parser) = ParseLoop(ParseStart, SubSeq(Consumed, 1, 2))

\* ------------------------------------------------------------------------
\* More claims about generate_diff (specification Spec)
\* ------------------------------------------------------------------------
IsChanged(line) == line.type \in {"add", "delete"}

\* the number of context lines before the first changed line of the lines
RECURSIVE LeadingContext(_)
LeadingContext(lines) ==
    IF lines = Empty \/ IsChanged(Head(lines)) THEN 0
    ELSE 1 + LeadingContext(Tail(lines))

\* the number of context lines after the last changed line of the lines
RECURSIVE TrailingContext(_)
TrailingContext(lines) ==
    IF lines = Empty \/ IsChanged(lines[Len(lines)]) THEN 0
    ELSE 1 + TrailingContext(SubSeq(lines, 1, Len(lines) - 1))

\* sub is lines[k1], lines[k2], ... for some k1 < k2 < ...
RECURSIVE IsSubsequence(_, _)
IsSubsequence(sub, lines) ==
    IF sub = Empty THEN TRUE
    ELSE IF lines = Empty THEN FALSE
    ELSE IF Head(sub) = Head(lines) THEN IsSubsequence(Tail(sub), Tail(lines))
    ELSE IsSubsequence(sub, Tail(lines))

IsDelete(line) == line.type = "delete"
IsAdd(line) == line.type = "add"
ContentOf(lines) == [k \in 1..Len(lines) |-> lines[k].content]

\* C14: in every hunk generate_diff returns, at most context_lines context
\* lines precede the first changed line and at most context_lines follow the
\* last, and the delete and the add lines are in the order of the lines of
\* the original and of the modified text.
C14_ContextBounded ==
    Generated =>
        \A h \in 1..Len(operations) :
            LET lines == operations[h].lines IN
            /\ (\E k \in 1..Len(lines) : IsChanged(lines[k]))
                   => /\ LeadingContext(lines) <= context_lines
                      /\ TrailingContext(lines) <= context_lines
            /\ IsSubsequence(ContentOf(SelectSeq(lines, IsDelete)), OriginalLines)
            /\ IsSubsequence(ContentOf(SelectSeq(lines, IsAdd)), ModifiedLines)

\* a list of hunks, each with its four numbers and a list of diff lines
IsHunkList(ops) ==
    /\ DOMAIN ops = 1..Len(ops)
    /\ \A h \in 1..Len(ops) :
          /\ DOMAIN ops[h] = {"type", "orig_start", "orig_count", "mod_start",
                              "mod_count", "lines"}
          /\ ops[h].type = "hunk"
          /\ {ops[h].orig_start, ops[h].orig_count, ops[h].mod_start,
              ops[h].mod_count} \subseteq Nat
          /\ DOMAIN ops[h].lines = 1..Len(ops[h].lines)
          /\ \A k \in 1..Len(ops[h].lines) :
                /\ DOMAIN ops[h].lines[k] = {"type", "content"}
                /\ ops[h].lines[k].type \in {"context", "add", "delete"}

\* C15: generate_diff is total: for every pair of texts, the empty text and
\* texts without a line break at their end included, the call terminates and
\* returns a list of hunks without raising.
C15_GenerateIsTotal == Generated => IsHunkList(operations)

\* generate_diff returned for an empty original and a modified text without
\* a line break at its end
C15_Witness ==
    /\ pc = "generated"
    /\ original = Empty
    /\ Len(ModifiedLines) >= 2
    /\ ~EndsWithBreak(modified)
    /\ IsHunkList(operations)
    /\ operations # Empty

\* ------------------------------------------------------------------------
\* More claims about apply_diff (specification SpecApi)
\* ------------------------------------------------------------------------
\* apply_diff was called and returned a text
ApplyReturned == pc = "responded" /\ response.status = 200

\* P(lines) of every hunk of the operations
AllOps(ops, P(_)) ==
    \A k \in 1..Len(ops) :
        (HasKey(ops[k], "type") /\ ops[k].type = "hunk") => P(ops[k].lines)

NoEmptyAdd(lines) == \A k \in 1..Len(AddContents(lines)) : AddContents(lines)[k] # Empty

NoEmptyLine(lines) == \A k \in 1..Len(lines) : lines[k] # Empty

ExactlyReplaced(lines, index, count, contents) ==
    SubSeq(lines, 1, index) \o contents
        \o SubSeq(lines, index + count + 1, Len(lines))

\* the working lines after the hunks, each in its turn and in the order
\* given, removed exactly their delete count of lines at (orig_start - 1) +
\* offset and put their add contents in at that index, the offset being the
\* sum of adds - deletes of the hunks before; exact: every hunk had that
\* many lines to remove at that index
RECURSIVE ExactResult(_, _, _)
ExactResult(lines, offset, ops) ==
    IF ops = Empty THEN [exact |-> TRUE, lines |-> lines]
    ELSE LET hunk == Head(ops) IN
         IF hunk.type # "hunk" THEN ExactResult(lines, offset, Tail(ops))
         ELSE LET index == (hunk.orig_start - 1) + offset
                  count == CountDeletes(hunk.lines)
                  contents == AddContents(hunk.lines)
              IN  IF index < 0 \/ index + count > Len(lines)
                  THEN [exact |-> FALSE, lines |-> lines]
                  ELSE ExactResult(
                           ExactlyReplaced(lines, index, count, contents),
                           offset + Len(contents) - count, Tail(ops))

\* C18: apply_diff takes the hunks in the order given, with an offset that
\* starts at 0: hunk k removes exactly its delete count of lines at the
\* 0-based index (orig_start_k - 1) + the sum of (adds - deletes) of the
\* hunks before it and puts its add contents in at that index, whatever the
\* order of the orig_start of the hunks.
C18_HunksActInOrder ==
    ApplyReturned =>
        LET result == ExactResult(SplitLines(original), 0, operations) IN
        result.exact /\ applied.text = JoinLines(result.lines)

IsNoContext(line) == line.type # "context"

\* the lines with their context lines replaced by the given context lines,
\* put first, and the content of their delete lines by the given content
OtherLines(lines, context, content) ==
    LET kept == SelectSeq(lines, IsNoContext) IN
    context \o [k \in 1..Len(kept) |->
                   IF kept[k].type = "delete"
                   THEN DiffLine("delete", content) ELSE kept[k]]

\* the patch with other context lines and other delete contents in its hunks
OtherPatch(ops, context, content) ==
    [k \in 1..Len(ops) |->
        IF HasKey(ops[k], "type") /\ ops[k].type = "hunk"
        THEN [ops[k] EXCEPT !.lines = OtherLines(@, context, content)]
        ELSE ops[k]]

\* the context lines and the delete contents the patches are compared under
OtherContexts ==
    { Empty, << DiffLine("context", LineX) >>,
      << DiffLine("context", LineZ), DiffLine("context", Empty) >> }

OtherContents == { Empty, LineX }

\* C19: apply_diff neither puts in nor compares context lines, nor the
\* content of delete lines: the patch of the request and every patch that
\* differs from it only in the context lines of its hunks (their number,
\* their content) and in the content of its delete lines give the same
\* result on the same original.
C19_ContextIsIgnored ==
    ApplyWasCalled =>
        \A context \in OtherContexts, content \in OtherContents :
            apply_diff(original, OtherPatch(operations, context, content))
                = applied

\* a request whose hunk has a context line and a delete line of a content
\* that is not at its place in the file, and that changed the file
C19_Witness ==
    /\ ApplyReturned
    /\ applied.text # original
    /\ \E k \in 1..Len(operations) :
          /\ HasKey(operations[k], "lines")
          /\ \E i \in 1..Len(operations[k].lines) :
                operations[k].lines[i].type = "context"
          /\ operations[k].orig_start = 1
          /\ CountDeletes(operations[k].lines) = 1
    /\ OtherPatch(operations, Empty, LineX) # operations

\* ------------------------------------------------------------------------
\* Claims about calls that run at the same time (specification SpecConc)
\* ------------------------------------------------------------------------
\* what the call of the frame returns when it runs alone
ResultAlone(frame) ==
    CASE frame.kind = "generate" ->
            generate_diff(frame.args.original, frame.args.modified,
                          frame.args.context_lines)
      [] frame.kind = "parse" -> parse_diff_from_text(frame.args.diff_text)
      [] frame.kind = "apply" ->
            apply_diff(frame.args.original, frame.args.operations)

\* C16: generate_diff, parse_diff_from_text and apply_diff share no mutable
\* state: however the iterations of two calls on the one instance are
\* interleaved, each call returns what the same call returns run alone.
C16_CallsDoNotInterfere ==
    pc = "calls" =>
        \A c \in Calls : calls[c].done => calls[c].result = ResultAlone(calls[c])

\* a call of parse_diff_from_text returned its hunk while another call of it,
\* on another text, was in the middle of its loop
C16_Witness ==
    /\ pc = "calls"
    /\ calls[1].kind = "parse" /\ calls[2].kind = "parse"
    /\ calls[1].args # calls[2].args
    /\ ~calls[1].done
    /\ calls[1].todo # Empty
    /\ Len(calls[1].todo) < Len(SplitLines(calls[1].args.diff_text))
    /\ calls[2].done
    /\ calls[2].result.operations # Empty
    /\ calls[2].result = ResultAlone(calls[2])

\* ------------------------------------------------------------------------
\* Claims about requests in flight at the same time (specification
\* SpecSerial)
\* ------------------------------------------------------------------------
\* the content of the file after one request with the patch, served alone
ContentAfter(content, patch) ==
    ApplyHandler([project |-> TRUE, exists |-> TRUE, content |-> content],
                 patch).store.content

BothServed == pc = "serving" /\ \A r \in Calls : calls[r].done

\* C17: two /apply requests for the same file are served one after the
\* other, the write of one never between the read and the write of the
\* other: the content of the file after both is that of serving the two
\* patches one after the other, in one of the two orders.
C17_NoLostUpdate ==
    (BothServed /\ store.exists) =>
        store.content \in
            { ContentAfter(ContentAfter(original, calls[1].operations),
                           calls[2].operations),
              ContentAfter(ContentAfter(original, calls[2].operations),
                           calls[1].operations) }

\* both requests succeeded, and the file differs from what either patch
\* alone makes of it
C17_Witness ==
    /\ BothServed
    /\ \A r \in Calls : calls[r].response.status = 200
    /\ store.content # ContentAfter(original, calls[1].operations)
    /\ store.content # ContentAfter(original, calls[2].operations)
    /\ store.content =
          ContentAfter(ContentAfter(original, calls[1].operations),
                       calls[2].operations)

\* ------------------------------------------------------------------------
\* More claims about parse_diff_from_text (specification SpecParse)
\* ------------------------------------------------------------------------
IsValidHeader(line) == IsHeaderLine(line) /\ HeaderMatch(line).matched

ValidHeaders(lines) == SelectSeq(lines, IsValidHeader)

MalformedHeaders(lines) == SelectSeq(lines, IsMalformedHeader)

HeaderInts(hunk) ==
    << hunk.orig_start, hunk.orig_count, hunk.mod_start, hunk.mod_count >>

IsInvalidHeaderError(error) ==
    \E k \in 1..Len(InputLines) : error = InvalidHeaderError(InputLines[k])

\* C22: the parser returns one hunk per line that matches the header
\* pattern, in input order, with the four integers of that line, whatever
\* stands before or after it, and the number of its 'Invalid hunk header'
\* errors is the number of lines that begin with @@ and do not match.
C22_OneHunkPerValidHeader ==
    pc = "returned" =>
        /\ Len(parsed.operations) = Len(ValidHeaders(InputLines))
        /\ \A k \in 1..Len(parsed.operations) :
              \/ HeaderMatch(ValidHeaders(InputLines)[k]).overlong
              \/ HeaderInts(parsed.operations[k])
                    = HeaderMatch(ValidHeaders(InputLines)[k]).groups
        /\ Len(SelectSeq(parsed.errors, IsInvalidHeaderError))
              = Len(MalformedHeaders(InputLines))

\* the same for the inputs in which no number of a header is longer than
\* int() converts
C22_WithinIntLimit ==
    (\A k \in 1..Len(InputLines) : InputLines[k] # HeaderOverlong)
        => C22_OneHunkPerValidHeader

\* a valid header before and after a malformed one, parsed to the end
C22_BothSidesOfMalformed ==
    /\ pc = "returned"
    /\ InputLines = << HeaderOne, HeaderNoCounts, HeaderTwo >>
    /\ Len(parsed.operations) = 2

\* C23: the parser does not compare the lines of a hunk with the counts its
\* header declares: a returned hunk whose context and delete lines are not
\* orig_count many, or whose context and add lines are not mod_count many, is
\* the hunk the loop collected, with the counts as declared, and the only
\* errors are those of malformed headers and of the except clause.
C23_CountsNotChecked ==
    pc = "returned" =>
        \A k \in 1..Len(parsed.operations) :
            CountsDiffer(parsed.operations[k]) =>
                /\ parsed.operations[k] = parser.operations[k]
                /\ HeaderInts(parsed.operations[k])
                      = HeaderMatch(ValidHeaders(InputLines)[k]).groups
                /\ \A e \in 1..Len(parsed.errors) :
                      \/ IsInvalidHeaderError(parsed.errors[e])
                      \/ parsed.errors[e] = IntLimitError

\* a header that declares two lines on each side, with one delete line:
\* returned, and no error
C23_Witness ==
    /\ pc = "returned"
    /\ InputLines = << HeaderOne, LineDeleteB >>
    /\ Len(parsed.operations) = 1
    /\ CountsDiffer(parsed.operations[1])
    /\ parsed.operations[1].orig_count = 2
    /\ Len(parsed.operations[1].lines) = 1
    /\ parsed.errors = Empty

\* ------------------------------------------------------------------------
\* More claims about the hunks of generate_diff (specification Spec)
\* ------------------------------------------------------------------------
\* C24: every hunk generate_diff returns has orig_start >= 1 and
\* mod_start >= 1, also for an empty text and for a hunk that only inserts
\* or only deletes.
C24_StartsAtLeastOne ==
    Generated =>
        \A k \in 1..Len(operations) :
            operations[k].orig_start >= 1 /\ operations[k].mod_start >= 1

\* C25: in every hunk generate_diff returns, orig_count is the number of its
\* context and delete lines and mod_count the number of its context and add
\* lines.
C25_CountsMatchLines ==
    Generated => \A k \in 1..Len(operations) : ~CountsDiffer(operations[k])

\* C26: the hunks generate_diff returns are in strictly ascending orig_start
\* order and the spans of the original their headers declare do not overlap:
\* each hunk starts after the last line of the span of the hunk before it.
C26_HunksAscendWithoutOverlap ==
    Generated =>
        \A k \in 1..(Len(operations) - 1) :
            /\ operations[k].orig_start < operations[k + 1].orig_start
            /\ operations[k].orig_start + operations[k].orig_count
                  <= operations[k + 1].orig_start

\* a patch of two hunks, each with a span of the original that is not empty
C26_Witness ==
    /\ pc = "generated"
    /\ Len(operations) = 2
    /\ operations[1].orig_count > 0
    /\ operations[2].orig_count > 0
    /\ operations[1].orig_start + operations[1].orig_count
          <= operations[2].orig_start

\* C27: generate_diff returns at least one hunk whenever the lines of
\* original and modified differ, for every contextLines >= 0.
C27_SomeHunkWhenDifferent ==
    (Generated /\ HasChange) => operations # Empty

\* the lines of a text that the opcodes leave outside the equal ranges
RECURSIVE OutsideAlignment(_, _, _)
OutsideAlignment(codes, lines, side) ==
    IF codes = Empty THEN Empty
    ELSE (IF Head(codes).tag = "equal" THEN Empty
          ELSE IF side = "original"
               THEN SubSeq(lines, Head(codes).i1 + 1, Head(codes).i2)
               ELSE SubSeq(lines, Head(codes).j1 + 1, Head(codes).j2))
         \o OutsideAlignment(Tail(codes), lines, side)

\* the lines of all hunks, in order
RECURSIVE HunkLines(_)
HunkLines(ops) ==
    IF ops = Empty THEN Empty ELSE Head(ops).lines \o HunkLines(Tail(ops))

\* C28: generate_diff loses no changed line: the delete lines of the returned
\* hunks are the original lines outside the common alignment, and the add
\* lines the modified lines outside it, each with its content unchanged.
C28_NoChangedLineLost ==
    Generated =>
        /\ ContentOf(SelectSeq(HunkLines(operations), IsDelete))
              = OutsideAlignment(GetOpcodes(OriginalLines, ModifiedLines),
                                 OriginalLines, "original")
        /\ ContentOf(SelectSeq(HunkLines(operations), IsAdd))
              = OutsideAlignment(GetOpcodes(OriginalLines, ModifiedLines),
                                 ModifiedLines, "modified")

\* the same for the diffs in which every '@@' line matches the pattern and
\* no content line begins with '--' or '++'
C28_WithoutLostHeadersAndMarkers ==
    (/\ Generated
     /\ \A k \in 1..Len(SplitLines(diff_text)) :
           LET line == SplitLines(diff_text)[k] IN
           /\ IsHeaderLine(line) => HeaderMatch(line).matched
           /\ k > 2 => ~IsFileHeader(line))
        => C28_NoChangedLineLost

\* ------------------------------------------------------------------------
\* More claims about the endpoints (specification SpecApi)
\* ------------------------------------------------------------------------
Responded == pc \in {"responded", "generate_responded"}

\* C29: when the file does not exist in the project, POST /generate and
\* POST /apply answer with status 404, and the store is as it was: no file
\* is written.
C29_MissingFileIs404 ==
    (Responded /\ store.project /\ ~store.exists) => response.status = 404

\* what the handlers do instead: the answer of a missing file is 500 with
\* the message of the last except clause, and no file exists afterwards
C29_MissingFileIs500 ==
    (Responded /\ store.project /\ ~store.exists) =>
        /\ response.status = 500
        /\ response.detail \in { "Error applying diff: File not found",
                                 "Error generating diff: File not found" }

\* ------------------------------------------------------------------------
\* POST /api/chat/completions: two requests with the same session_id on the
\* one event loop.  The session is a Redis value; the Redis client is the
\* blocking one, so the handler runs without a break from its start to the
\* call of the language model, is suspended while the model answers, and
\* runs without a break from the answer to its return
\* ------------------------------------------------------------------------
\* a message: id 0 stands for no id, the id of a reply is a fresh uuid
Message(id, role, content) == [id |-> id, role |-> role, content |-> content]

\* the messages the requests are made of, each with all its fields as the
\* client sent them
RequestMessages ==
    { Message(0, "user", "first question"),
      Message(0, "user", "second question"),
      Message(0, "system", "be brief") }

\* the messages lists of the requests
ChatRequests == SeqsUpTo(RequestMessages, MaxMessages) \ { Empty }

\* the stored sessions the requests arrive at: none, or an earlier exchange
StoredSessions ==
    { Empty,
      << Message(0, "user", "earlier question"),
         Message(9, "assistant", "earlier reply") >> }

InitChat ==
    /\ \E session \in StoredSessions :
          store = [session |-> session, cache |-> {}]
    /\ \E requests \in [Calls -> ChatRequests] :
          calls = [r \in Calls |->
                      [request |-> requests[r], at |-> "arrived",
                       messages |-> Empty, response |-> NoResponse]]
    /\ pc = "chat"
    /\ original = Empty
    /\ modified = Empty
    /\ context_lines = DefaultContext
    /\ operations = Empty
    /\ diff_text = Empty
    /\ applied = NoApplied
    /\ parsed = NoParsed
    /\ parser = NoParser
    /\ response = NoResponse

IsUserMessage(message) == message.role = "user"

\* await session_service.get_session(session_id) or []
get_session(redis) == redis.session

\* session_service.save_session(session_id, messages): the whole list is
\* written over the stored value
save_session(redis, messages) == [redis EXCEPT !.session = messages]

\* the cached responses for the messages of a request
CachedFor(redis, request) == { e \in redis.cache : e.key = request }

\* the handler from its start to the call of the model: the session is read,
\* the user messages of the request are appended to the local list, and a
\* cached response for the same messages is returned at once
ChatStart(r) ==
    /\ pc = "chat"
    /\ calls[r].at = "arrived"
    /\ LET messages == get_session(store) \o
                           SelectSeq(calls[r].request, IsUserMessage)
           hit == CachedFor(store, calls[r].request)
       IN  IF hit # {}
           THEN calls' = [calls EXCEPT
                            ![r].at = "done",
                            ![r].messages = messages,
                            ![r].response =
                                [status |-> 200,
                                 message |-> (CHOOSE e \in hit : TRUE).message]]
           ELSE calls' = [calls EXCEPT ![r].at = "awaiting",
                                       ![r].messages = messages]
    /\ UNCHANGED << original, modified, context_lines, pc, operations,
                    diff_text, applied, parsed, parser, store, response >>

\* the handler from the answer of the model to its return: the reply is
\* appended to the local list, the list is saved and the response cached; an
\* exception of the model is answered with 500 and nothing is saved
ChatFinish(r) ==
    /\ pc = "chat"
    /\ calls[r].at = "awaiting"
    /\ \E answered \in BOOLEAN :
          IF answered
          THEN LET reply == Message(r, "assistant", "reply")
                   messages == Append(calls[r].messages, reply)
               IN  /\ store' = [save_session(store, messages) EXCEPT
                                  !.cache = @ \cup { [key |-> calls[r].request,
                                                      message |-> reply] }]
                   /\ calls' = [calls EXCEPT
                                  ![r].at = "done",
                                  ![r].messages = messages,
                                  ![r].response = [status |-> 200,
                                                   message |-> reply]]
          ELSE /\ calls' = [calls EXCEPT
                              ![r].at = "done",
                              ![r].response = [status |-> 500,
                                               message |-> NoResponse]]
               /\ UNCHANGED store
    /\ UNCHANGED << original, modified, context_lines, pc, operations,
                    diff_text, applied, parsed, parser, response >>

NextChat == \E r \in Calls : ChatStart(r) \/ ChatFinish(r)

SpecChat == InitChat /\ [][NextChat]_vars

\* ------------------------------------------------------------------------
\* Claims about the chat session (specification SpecChat)
\* ------------------------------------------------------------------------
BothSucceeded ==
    /\ pc = "chat"
    /\ \A r \in Calls : calls[r].at = "done" /\ calls[r].response.status = 200

Stored(message) == \E k \in 1..Len(store.session) : store.session[k] = message

\* C30: two requests on the same session lose no message: after both have
\* succeeded the stored session has the user messages of both requests and
\* the reply each of them was answered with.
C30_NoMessageLost ==
    BothSucceeded =>
        \A r \in Calls :
            /\ Stored(calls[r].response.message)
            /\ \A k \in 1..Len(calls[r].request) :
                  IsUserMessage(calls[r].request[k])
                      => Stored(calls[r].request[k])

\* what the handlers leave instead: the stored session is the local list of
\* one of the two requests, that of the request that saved last
C30_LastSaveWins ==
    BothSucceeded => \E r \in Calls : store.session = calls[r].messages

\* two requests one after the other: both succeeded and nothing is lost
C30_OneAfterTheOther ==
    /\ BothSucceeded
    /\ calls[1].request # calls[2].request
    /\ Stored(Message(1, "assistant", "reply"))
    /\ Stored(Message(2, "assistant", "reply"))

====
